---- MODULE Spec2Model ----
(***************************************************************************)
(* Model of the runelore Othello engine: the bit-parallel Bitboard         *)
(* (game/bitboard.rs), GameState (game/state.rs), the Board wrapper        *)
(* (game/mod.rs), the negamax search (search/mod.rs) and perft (main.rs).  *)
(* A u64 mask is modelled as the set of its set bit indices (0..63), so    *)
(* shifts lose the bits pushed past bit 63 or below bit 0 as in the code;  *)
(* a u64x4 vector is a function from the four lanes to masks.              *)
(*                                                                         *)
(* Spec drives Board::play with legal and illegal moves.  SpecSearch       *)
(* drives negamax, negamax_impl and perft on the positions of recorded     *)
(* games.  The last part states the rules of Othello and full-width        *)
(* negamax square by square, and the properties compare the code to them.  *)
(***************************************************************************)
EXTENDS Integers, Sequences, FiniteSets

Squares == 0..63

\* ---------------------------------------------------------------- bitboard.rs
NOT_A_FILE == {s \in Squares : s % 8 # 0}
NOT_H_FILE == {s \in Squares : s % 8 # 7}
FILLED == Squares

SHIFTS == <<1, 7, 8, 9>>
Lanes == 1..4

\* u64 >> k and u64 << k on bit sets
Shr(x, k) == {s - k : s \in {t \in x : t >= k}}
Shl(x, k) == {s + k : s \in {t \in x : t + k <= 63}}

ShiftOp(SHR, x, k) == IF SHR THEN Shr(x, k) ELSE Shl(x, k)

\* no edge masks: shifts wrap from one row into the next
MasksNoEdges(SHR) == <<FILLED, FILLED, FILLED, FILLED>>
Masks(SHR) == IF SHR THEN <<NOT_H_FILE, NOT_A_FILE, FILLED, NOT_H_FILE>>
                     ELSE <<NOT_A_FILE, NOT_H_FILE, FILLED, NOT_A_FILE>>

Splat(x) == [l \in Lanes |-> x]
ReduceOr(v) == v[1] \cup v[2] \cup v[3] \cup v[4]

\* one lane of vectorized_fill: the three Kogge-Stone doubling rounds
FillLane(SHR, l, generator, propagator) ==
    LET k    == SHIFTS[l]
        pro0 == propagator \cap Masks(SHR)[l]
        gen1 == generator \cup (pro0 \cap ShiftOp(SHR, generator, k))
        pro1 == pro0 \cap ShiftOp(SHR, pro0, k)
        gen2 == gen1 \cup (pro1 \cap ShiftOp(SHR, gen1, 2 * k))
        pro2 == pro1 \cap ShiftOp(SHR, pro1, 2 * k)
    IN  gen2 \cup (pro2 \cap ShiftOp(SHR, gen2, 4 * k))

vectorized_fill(SHR, generator, propagator) ==
    [l \in Lanes |-> FillLane(SHR, l, generator[l], propagator[l])]

vectorized_shift(SHR, gen) ==
    [l \in Lanes |-> ShiftOp(SHR, gen[l], SHIFTS[l]) \cap Masks(SHR)[l]]

empties(b) == Squares \ (b.me \cup b.op)

get_moves(b) ==
    LET me_vec    == Splat(b.me)
        op_vec    == Splat(b.op)
        fill_shr  == vectorized_fill(TRUE, me_vec, op_vec)
        fill_shl  == vectorized_fill(FALSE, me_vec, op_vec)
        shift_shr == ReduceOr(vectorized_shift(TRUE, [l \in Lanes |-> fill_shr[l] \cap op_vec[l]]))
        shift_shl == ReduceOr(vectorized_shift(FALSE, [l \in Lanes |-> fill_shl[l] \cap op_vec[l]]))
    IN  (shift_shr \cup shift_shl) \cap empties(b)

pass(b) == [me |-> b.op, op |-> b.me]

\* a select that keeps every lane
SelectReduceKeepsAll(shifted, fill) == UNION {fill[l] : l \in Lanes}

\* mask.select(fill, ZERO).reduce_or() with mask = (shift & me) != 0 per lane
SelectReduce(shifted, fill) ==
    UNION {IF shifted[l] # {} THEN fill[l] ELSE {} : l \in Lanes}

\* the board make_move returns, with the swaps left in me
MovedBoardKeepsFlipped(b, swaps) == [me |-> b.op, op |-> b.me \cup swaps]

\* `Self { me: self.op & !swaps, op: self.me | swaps }`
MovedBoard(b, swaps) == [me |-> b.op \ swaps, op |-> b.me \cup swaps]

make_move(b, move_mask) ==
    LET me_vec    == Splat(b.me)
        op_vec    == Splat(b.op)
        move_vec  == Splat(move_mask)
        fill_shr  == vectorized_fill(TRUE, move_vec, op_vec)
        fill_shl  == vectorized_fill(FALSE, move_vec, op_vec)
        sh_r      == vectorized_shift(TRUE, fill_shr)
        sh_l      == vectorized_shift(FALSE, fill_shl)
        shift_shr == [l \in Lanes |-> sh_r[l] \cap me_vec[l]]
        shift_shl == [l \in Lanes |-> sh_l[l] \cap me_vec[l]]
        swaps     == SelectReduce(shift_shr, fill_shr) \cup SelectReduce(shift_shl, fill_shl)
    IN  MovedBoard(b, swaps)

score(b) == Cardinality(b.me) - Cardinality(b.op)

BitboardDefault == [me |-> {28, 35}, op |-> {27, 36}]

\* ------------------------------------------------------------------- state.rs
Flip(side) == IF side = "Black" THEN "White" ELSE "Black"

GameStateDefault == [side |-> "Black", last |-> "Play"]

StatePlay(gs) == [side |-> Flip(gs.side), last |-> "Play"]
StatePass(gs) == [side |-> Flip(gs.side), last |-> "Pass"]

\* ----------------------------------------------------------------- game/mod.rs
PlayAt(idx) == <<"Play", idx>>
Pass == <<"Pass">>
\* `Play(u8)`: the index is a byte, whatever the board's size
U8 == 0..255
Move == {PlayAt(i) : i \in U8} \cup {Pass}

\* x & x.overflowing_neg(): the lowest set bit of x, 0 for x = 0
extract_lsb(x) == IF x = {} THEN {} ELSE {CHOOSE s \in x : \A t \in x : s <= t}
isolate_lsb(x) == extract_lsb(x)

\* move_mask.trailing_zeros() of a non-zero mask: its lowest set bit's index
TrailingZeros(mask) == CHOOSE s \in mask : \A t \in mask : s <= t

RECURSIVE MoveLoop(_, _)
MoveLoop(valid_moves, moves) ==
    IF valid_moves = {} THEN moves
    ELSE LET move_mask == isolate_lsb(valid_moves)
         IN  MoveLoop(valid_moves \ move_mask,
                      Append(moves, PlayAt(TrailingZeros(move_mask))))

BoardGetMoves(b) ==
    LET moves == MoveLoop(get_moves(b), <<>>)
    IN  IF Len(moves) = 0 THEN <<Pass>> ELSE moves

\* The two ways the crate is compiled: with overflow checks (debug) or
\* without them (release)
Builds == {"debug", "release"}

\* `1 << idx` on a u64 with idx: u8. A shift by 64 or more overflows: the
\* debug build panics, the release build shifts by idx mod 64.
ShlOverflows(idx) == idx \notin Squares
ShlOne(idx) == {idx % 64}

\* Board::play as a function of the board fields and the build: the result
\* (Ok, Err, or the panic that ends the call), the new fields and the mask
\* the call computed in its local valid_moves
BoardPlay(b, gs, m, bld) ==
    LET valid_moves == get_moves(b)
    IN  IF m[1] = "Play"
        THEN IF ShlOverflows(m[2]) /\ bld = "debug"
             THEN [ret |-> "panic", bitboard |-> b, game_state |-> gs,
                   valid_moves |-> valid_moves]
             ELSE LET move_mask == ShlOne(m[2])
                  IN  IF valid_moves \cap move_mask = {}
                      THEN [ret |-> "Err", bitboard |-> b, game_state |-> gs,
                            valid_moves |-> valid_moves]
                      ELSE [ret |-> "Ok", bitboard |-> make_move(b, move_mask),
                            game_state |-> StatePlay(gs), valid_moves |-> valid_moves]
        ELSE IF valid_moves = {}
             THEN [ret |-> "Err", bitboard |-> b, game_state |-> gs,
                   valid_moves |-> valid_moves]
             ELSE [ret |-> "Ok", bitboard |-> pass(b), game_state |-> StatePass(gs),
                   valid_moves |-> valid_moves]

\* --------------------------------------------------------------- search/mod.rs
I32_MAX == 2147483647
I32_MIN == -I32_MAX - 1

None == <<>>
Some(mv, sc) == <<mv, sc>>

\* `if score >= beta { return beta; }`: the test and the value returned
IsCutoff(sc, beta) == sc >= beta
CutoffValueSoft(sc, beta) == sc
CutoffValue(sc, beta) == beta

\* `if let MoveType::Pass = game_state.get_last()` at a node without moves
IsTerminalAnyLast(valid_moves, gs) == valid_moves = {}
IsTerminal(valid_moves, gs) == valid_moves = {} /\ gs.last = "Pass"

\* the (alpha, beta) a child is searched with: `-beta, -alpha`
ChildWindowNotSwapped(alpha, beta) == <<-alpha, -beta>>
ChildWindow(alpha, beta) == <<-beta, -alpha>>

\* negamax_impl, returning besides its value v the number n of negamax_impl
\* invocations it caused (itself included) and the number k of children it
\* called directly.
RECURSIVE NegamaxImplT(_, _, _, _, _)
RECURSIVE ImplLoop(_, _, _, _, _, _, _, _)
ImplLoop(b, gs, valid_moves, alpha, beta, depth, n, k) ==
    IF valid_moves = {} THEN [v |-> alpha, n |-> n, k |-> k]
    ELSE LET move_mask == extract_lsb(valid_moves)
             w  == ChildWindow(alpha, beta)
             c  == NegamaxImplT(make_move(b, move_mask), StatePlay(gs),
                                w[1], w[2], depth - 1)
             sc == -c.v
         IN  IF IsCutoff(sc, beta)
             THEN [v |-> CutoffValue(sc, beta), n |-> n + c.n, k |-> k + 1]
             ELSE ImplLoop(b, gs, valid_moves \ move_mask,
                           IF sc > alpha THEN sc ELSE alpha, beta, depth,
                           n + c.n, k + 1)

NegamaxImplT(b, gs, alpha, beta, depth) ==
    IF depth = 0 THEN [v |-> score(b), n |-> 1, k |-> 0]
    ELSE LET valid_moves == get_moves(b)
         IN  IF valid_moves = {}
             THEN IF IsTerminal(valid_moves, gs)
                  THEN [v |-> score(b), n |-> 1, k |-> 0]
                  ELSE LET w == ChildWindow(alpha, beta)
                           c == NegamaxImplT(pass(b), StatePass(gs),
                                             w[1], w[2], depth - 1)
                       IN  [v |-> -c.v, n |-> 1 + c.n, k |-> 1]
             ELSE ImplLoop(b, gs, valid_moves, alpha, beta, depth, 1, 0)

negamax_impl(b, gs, alpha, beta, depth) == NegamaxImplT(b, gs, alpha, beta, depth).v

\* `if score > best_score` in the root loop
Better(sc, best_score) == sc > best_score

\* `if let MoveType::Pass = game_state.get_last() { return None; }` at the root
RootNeverGivesUp(gs) == FALSE
RootGivesUp(gs) == gs.last = "Pass"

RECURSIVE RootLoop(_, _, _, _, _, _, _)
RootLoop(b, gs, moves, i, best_move, best_score, depth) ==
    IF i > Len(moves) THEN Some(best_move, best_score)
    ELSE LET mv == moves[i]
         IN  IF mv[1] = "Play"
             THEN LET sc == -negamax_impl(make_move(b, {mv[2]}), StatePlay(gs),
                                          I32_MIN + 1, I32_MAX, depth - 1)
                  IN  IF Better(sc, best_score)
                      THEN RootLoop(b, gs, moves, i + 1, mv, sc, depth)
                      ELSE RootLoop(b, gs, moves, i + 1, best_move, best_score, depth)
             ELSE IF RootGivesUp(gs) THEN None
                  ELSE LET sc == -negamax_impl(pass(b), StatePass(gs),
                                               I32_MIN + 1, I32_MAX, depth - 1)
                       IN  IF Better(sc, best_score)
                           THEN RootLoop(b, gs, moves, i + 1, mv, sc, depth)
                           ELSE RootLoop(b, gs, moves, i + 1, best_move, best_score, depth)

negamax(b, gs, depth) ==
    IF depth = 0 THEN None
    ELSE LET moves == BoardGetMoves(b)
         IN  RootLoop(b, gs, moves, 1, moves[1], I32_MIN, depth)

\* --------------------------------------------------------------------- main.rs
\* `if depth <= 0 { return 1; }`
PerftLeafAtOne(depth) == depth <= 1
PerftLeaf(depth) == depth <= 0

RECURSIVE PerftImpl(_, _, _)
RECURSIVE PerftLoop(_, _, _, _)
PerftLoop(board, moves, depth, nodes) ==
    IF moves = {} THEN nodes
    ELSE LET move_mask == isolate_lsb(moves)
         IN  PerftLoop(board, moves \ move_mask, depth,
                       nodes + PerftImpl(make_move(board, move_mask), FALSE, depth - 1))

PerftImpl(board, passed, depth) ==
    IF PerftLeaf(depth) THEN 1
    ELSE LET moves == get_moves(board)
         IN  IF moves = {}
             THEN IF passed THEN 1 ELSE PerftImpl(pass(board), TRUE, depth - 1)
             ELSE PerftLoop(board, moves, depth, 0)

\* main.rs starts from Bitboard::init(), which bitboard.rs does not define;
\* it is taken to be the standard opening, the board Default builds.
BitboardInit == BitboardDefault

perft(depth) == PerftImpl(BitboardInit, FALSE, depth)

\* ---------------------------------------------------------------- the driver
\* The caller replays one of two recorded games and may leave the record for
\* at most MaxOff successful plays of its own choosing.  The first game
\* (e6 f4 e3 f6 g5 d6 e7 f5 c5) ends with one side without disks; the second
\* reaches a position where only the side to move has a legal square.
Lines == {<<44, 29, 20, 45, 38, 43, 52, 37, 34>>,
          <<44, 29, 20, 45, 38, 43, 52, 21, 34, 30, 22>>}
MaxOff == 1
MaxDepth == 3
MaxEvalDepth == 2
MaxPerft == 3

\* (alpha, beta) windows handed to negamax_impl: the root's full window,
\* windows around the material scores, a null window and an empty one.
Windows == {<<I32_MIN + 1, I32_MAX>>, <<-3, 3>>, <<0, 1>>, <<-9, -2>>, <<2, -2>>}

VARIABLES bitboard, game_state, build, book, off, out
vars == <<bitboard, game_state, build, book, off, out>>

NoOut == [op |-> "none"]

Init ==
    /\ bitboard = BitboardDefault
    /\ game_state = GameStateDefault
    /\ build \in Builds
    /\ book = <<>>
    /\ off = 0
    /\ out = NoOut

IsPrefix(p, q) == Len(p) <= Len(q) /\ \A i \in 1..Len(p) : p[i] = q[i]

OnBook(m) ==
    /\ off = 0
    /\ m[1] = "Play"
    /\ \E L \in Lines : IsPrefix(Append(book, m[2]), L)

\* A panic in Board::play unwinds out of the driver: the run is over
Panicked == out.op = "play" /\ out.ret = "panic"

\* Board::play(m) called by the driver; out keeps the call's argument, its
\* result, its local valid_moves and the fields it started from
Play(m) ==
    \E r \in {BoardPlay(bitboard, game_state, m, build)} :
        /\ ~Panicked
        /\ (r.ret = "Ok") => (OnBook(m) \/ off < MaxOff)
        /\ UNCHANGED build
        /\ bitboard' = r.bitboard
        /\ game_state' = r.game_state
        /\ book' = IF r.ret = "Ok" /\ OnBook(m) THEN Append(book, m[2]) ELSE book
        /\ off' = IF r.ret = "Ok" /\ ~OnBook(m) THEN off + 1 ELSE off
        /\ out' = [op |-> "play", m |-> m, ret |-> r.ret, valid_moves |-> r.valid_moves,
                   before |-> [bitboard |-> bitboard, game_state |-> game_state]]

\* The moves the driver tries: everything Board::get_moves offers, a pass,
\* a few fixed squares whether or not they are legal, and a few indices
\* beyond the board (64, 93 = 64 + 29, 108 = 64 + 44, 255).
Offered == LET moves == BoardGetMoves(bitboard) IN {moves[i] : i \in 1..Len(moves)}
ProbeSquares == {0, 27, 34, 63}
ProbeBeyond == {64, 93, 108, 255}
Inputs == Offered \cup {Pass} \cup {PlayAt(i) : i \in ProbeSquares \cup ProbeBeyond}

\* The driver queries the engine once per position it has reached: right
\* after construction or after a play that was accepted.
Fresh == out.op = "none" \/ (out.op = "play" /\ out.ret = "Ok")

\* negamax(&board, depth)
Search(D) ==
    /\ Fresh
    /\ out' = [op |-> "negamax", depth |-> D, ret |-> negamax(bitboard, game_state, D)]
    /\ UNCHANGED <<bitboard, game_state, build, book, off>>

\* The successor the root loop hands to negamax_impl for the move mv
RootChild(b, gs, mv) ==
    IF mv[1] = "Play"
    THEN [bitboard |-> make_move(b, {mv[2]}), game_state |-> StatePlay(gs)]
    ELSE [bitboard |-> pass(b), game_state |-> StatePass(gs)]

\* negamax_impl on a successor of the current position (the root makes no
\* such call for a pass that follows a pass), with a window and a remaining
\* depth of the caller's choosing
Eval(mv, w, d) ==
    /\ Fresh
    /\ mv[1] = "Pass" => game_state.last # "Pass"
    /\ \E c \in {RootChild(bitboard, game_state, mv)} :
          out' = [op |-> "impl", node |-> c, alpha |-> w[1], beta |-> w[2], depth |-> d,
                  ret |-> NegamaxImplT(c.bitboard, c.game_state, w[1], w[2], d)]
    /\ UNCHANGED <<bitboard, game_state, build, book, off>>

\* perft(depth) of main.rs
RunPerft(d) ==
    /\ Fresh
    /\ out' = [op |-> "perft", depth |-> d, ret |-> perft(d)]
    /\ UNCHANGED <<bitboard, game_state, build, book, off>>

Next == \E m \in Inputs : Play(m)
Spec == Init /\ [][Next]_vars

\* In the search runs the driver replays the records, may skip a turn with a
\* pass, and queries the engine at the positions it reaches.
BookMoves ==
    {PlayAt(L[Len(book) + 1]) : L \in {K \in Lines : IsPrefix(book, K) /\ Len(K) > Len(book)}}

NextSearch ==
    \/ \E m \in BookMoves \cup {Pass} : Play(m)
    \/ \E D \in 0..MaxDepth : Search(D)
    \/ \E mv \in Offered, w \in Windows, d \in 0..MaxEvalDepth : Eval(mv, w, d)
    \/ \E d \in 0..MaxPerft : RunPerft(d)
\* negamax, negamax_impl and perft never evaluate `1 << idx`, and this driver
\* sends Board::play squares of the records and passes only: nothing in these
\* runs depends on the overflow checks, and they are made on one build.
InitSearch == Init /\ build = "release"
SpecSearch == InitSearch /\ [][NextSearch]_vars

\* ======================================================== reference rules
\* Othello's rules stated square by square, independently of the bit tricks.
Dirs == {<<dr, dc>> : dr \in -1..1, dc \in -1..1} \ {<<0, 0>>}
InRange(s, d, n) ==
    /\ (s \div 8) + n * d[1] \in 0..7
    /\ (s % 8) + n * d[2] \in 0..7
At(s, d, n) == ((s \div 8) + n * d[1]) * 8 + (s % 8) + n * d[2]

\* the lengths n of a run of opponent disks from s in direction d that is
\* closed by a mine disk (at most one n qualifies)
ClosedRuns(b, s, d) ==
    {n \in 1..6 : /\ \A i \in 1..n : InRange(s, d, i) /\ At(s, d, i) \in b.op
                  /\ InRange(s, d, n + 1)
                  /\ At(s, d, n + 1) \in b.me}
RunFlips(b, s, d) == UNION {{At(s, d, i) : i \in 1..n} : n \in ClosedRuns(b, s, d)}
RefFlips(b, s) == UNION {RunFlips(b, s, d) : d \in Dirs}
RefMoves(b) == {s \in Squares \ (b.me \cup b.op) : RefFlips(b, s) # {}}

Disjoint(b) == b.me \cap b.op = {}

\* C1: every board the game reaches, and every board the search derives from
\* it by a legal move or a pass, has disjoint occupancy masks.
C1_MasksDisjoint ==
    /\ Disjoint(bitboard)
    /\ \A mv \in Offered : Disjoint(RootChild(bitboard, game_state, mv).bitboard)
    /\ Disjoint(pass(bitboard))

C1_Witness ==
    /\ out.op = "play" /\ out.ret = "Ok" /\ out.m[1] = "Play"
    /\ Cardinality(bitboard.me \cup bitboard.op) >= 10
    /\ Cardinality(out.before.bitboard.op \cap bitboard.op) >= 2

\* C2: get_moves is exactly the set of empty squares from which some
\* direction holds a non-empty run of opponent disks closed by a mine disk.
C2_MovesAreFlankingSquares == get_moves(bitboard) = RefMoves(bitboard)

C2_Witness ==
    /\ Cardinality(get_moves(bitboard)) >= 6
    /\ \E s \in Squares \ (bitboard.me \cup bitboard.op) : s \notin get_moves(bitboard)
    /\ \E s \in get_moves(bitboard), d \in Dirs : \E n \in ClosedRuns(bitboard, s, d) : n >= 2

\* C3: for every legal square m, make_move flips exactly the closed runs
\* around m, places m and swaps the perspective; at least one disk flips.
C3_MakeMoveFlipsFlanked ==
    \A m \in get_moves(bitboard) :
        LET flips == RefFlips(bitboard, m)
        IN  /\ flips # {}
            /\ make_move(bitboard, {m}) =
                   [me |-> bitboard.op \ flips, op |-> bitboard.me \cup flips \cup {m}]

\* a move was played that flips in two directions while leaving an adjacent
\* opponent run unflipped
C3_Witness ==
    /\ out.op = "play" /\ out.ret = "Ok" /\ out.m[1] = "Play"
    /\ out.m[2] \in Squares
    /\ LET b0 == out.before.bitboard
           m  == out.m[2]
       IN  /\ Cardinality({d \in Dirs : RunFlips(b0, m, d) # {}}) >= 2
           /\ \E d \in Dirs : /\ InRange(m, d, 1) /\ At(m, d, 1) \in b0.op
                              /\ RunFlips(b0, m, d) = {}
           /\ bitboard = make_move(b0, {m})

\* the list Board::get_moves returns for a position whose mask is valid_moves
LegalMoves(valid_moves) ==
    IF valid_moves = {} THEN {Pass} ELSE {PlayAt(i) : i \in valid_moves}

\* C5: Board::play answers Err to every move outside the legal-move set.
C5_IllegalMoveRejected ==
    (out.op = "play" /\ out.m \notin LegalMoves(out.valid_moves)) => out.ret = "Err"

\* C10: Board::play answers Ok to every move Board::get_moves returned, and
\* then the bitboard and the game state have advanced together.
C10_OfferedMoveAccepted ==
    (out.op = "play" /\ out.m \in LegalMoves(out.valid_moves)) =>
        /\ out.ret = "Ok"
        /\ [bitboard |-> bitboard, game_state |-> game_state]
               = RootChild(out.before.bitboard, out.before.game_state, out.m)

\* ------------------------------------------------- reference for the search
SetMax(S) == CHOOSE x \in S : \A y \in S : y <= x
SetMin(S) == CHOOSE x \in S : \A y \in S : x <= y
Max2(x, y) == IF x >= y THEN x ELSE y

\* full-width negamax without a window over the same tree
RECURSIVE Minimax(_, _, _)
Minimax(b, gs, depth) ==
    IF depth = 0 THEN score(b)
    ELSE LET moves == get_moves(b)
         IN  IF moves = {}
             THEN IF gs.last = "Pass" THEN score(b)
                  ELSE -Minimax(pass(b), StatePass(gs), depth - 1)
             ELSE SetMax({-Minimax(make_move(b, {m}), StatePlay(gs), depth - 1) : m \in moves})

\* the number of nodes of that tree
RECURSIVE SumOver(_, _, _, _)
RECURSIVE TreeSize(_, _, _)
SumOver(b, gs, todo, depth) ==
    IF todo = {} THEN 0
    ELSE LET m == SetMin(todo)
         IN  TreeSize(make_move(b, {m}), StatePlay(gs), depth - 1)
                 + SumOver(b, gs, todo \ {m}, depth)
TreeSize(b, gs, depth) ==
    IF depth = 0 THEN 1
    ELSE LET moves == get_moves(b)
         IN  IF moves = {}
             THEN IF gs.last = "Pass" THEN 1
                  ELSE 1 + TreeSize(pass(b), StatePass(gs), depth - 1)
             ELSE 1 + SumOver(b, gs, moves, depth)

\* the root's answer by full-width search: the lowest square among the best
RefRoot(b, gs, depth) ==
    LET moves == get_moves(b)
    IN  IF moves = {}
        THEN Some(Pass, -Minimax(pass(b), StatePass(gs), depth - 1))
        ELSE LET val == [m \in moves |->
                            -Minimax(make_move(b, {m}), StatePlay(gs), depth - 1)]
                 top == SetMax({val[m] : m \in moves})
             IN  Some(PlayAt(SetMin({m \in moves : val[m] = top})), top)

\* C4: the pruning search returns the move and score of the full-width search.
C4_PrunedEqualsFullWidth ==
    (out.op = "negamax" /\ out.depth >= 1 /\ out.ret # None) =>
        out.ret = RefRoot(bitboard, game_state, out.depth)

\* a search of depth >= 3 below which a cutoff happened (negamax_impl ran
\* on fewer nodes than the full tree has) and whose best move is not the first
C4_Witness ==
    /\ out.op = "negamax" /\ out.depth >= 3 /\ out.ret # None
    /\ out.ret[1] # BoardGetMoves(bitboard)[1]
    /\ \E m \in get_moves(bitboard) :
          LET c == RootChild(bitboard, game_state, PlayAt(m))
          IN  NegamaxImplT(c.bitboard, c.game_state, I32_MIN + 1, I32_MAX, out.depth - 1).n
                  < TreeSize(c.bitboard, c.game_state, out.depth - 1)

\* C6: negamax returns nothing exactly when depth is 0 or the root has no
\* legal square and the last move was a pass.
C6_NoneExactlyAtDepthZeroOrDoublePass ==
    out.op = "negamax" =>
        (out.ret = None <=>
            (out.depth = 0 \/ (get_moves(bitboard) = {} /\ game_state.last = "Pass")))

C6_Witness ==
    /\ out.op = "negamax" /\ out.depth > 0 /\ out.ret = None
    /\ get_moves(bitboard) = {} /\ game_state.last = "Pass"

\* C7: a node without moves whose last move was a pass returns its score and
\* calls nothing; a node without moves whose last move was a play makes one
\* call, on the passed position with the negated window, and negates it.
C7_DoublePassIsTerminal ==
    out.op = "impl" =>
        LET b  == out.node.bitboard
            gs == out.node.game_state
        IN  /\ (get_moves(b) = {} /\ gs.last = "Pass") =>
                   (out.ret.v = score(b) /\ out.ret.n = 1 /\ out.ret.k = 0)
            /\ (get_moves(b) = {} /\ gs.last = "Play" /\ out.depth > 0) =>
                   LET c == NegamaxImplT(pass(b), StatePass(gs), -out.beta, -out.alpha,
                                         out.depth - 1)
                   IN  out.ret.k = 1 /\ out.ret.v = -c.v /\ out.ret.n = 1 + c.n

C7_Witness ==
    /\ out.op = "impl" /\ out.depth >= 2
    /\ get_moves(out.node.bitboard) = {} /\ out.node.game_state.last = "Pass"
    /\ out.alpha < score(out.node.bitboard) /\ score(out.node.bitboard) < out.beta

C7_WitnessSinglePass ==
    /\ out.op = "impl" /\ out.depth >= 2
    /\ get_moves(out.node.bitboard) = {} /\ out.node.game_state.last = "Play"

\* C8: perft from the opening gives 4 and 12, and the opening has 4 moves.
C8_PerftPublishedValues ==
    out.op = "perft" =>
        /\ out.depth = 1 => out.ret = 4
        /\ out.depth = 2 => out.ret = 12
        /\ Cardinality(get_moves(BitboardDefault)) = 4

C8_Witness == out.op = "perft" /\ out.depth = 2 /\ out.ret = 12

\* the negated scores of the children of a node in ascending square order,
\* each child searched with the window left by the children before it
RECURSIVE ChildScores(_, _, _, _, _, _, _)
ChildScores(b, gs, todo, alpha, beta, depth, acc) ==
    IF todo = {} THEN acc
    ELSE LET m  == SetMin(todo)
             sc == -negamax_impl(make_move(b, {m}), StatePlay(gs), -beta, -alpha, depth - 1)
         IN  ChildScores(b, gs, todo \ {m}, Max2(alpha, sc), beta, depth, Append(acc, sc))

\* C9: at a node with depth > 0, a legal move and alpha < beta, the result is
\* beta as soon as a child's negated score reaches beta, with no later child
\* examined; otherwise the maximum of alpha and the negated child scores.
C9_FailHardCutoff ==
    (/\ out.op = "impl" /\ out.depth > 0 /\ out.alpha < out.beta
     /\ get_moves(out.node.bitboard) # {}) =>
        LET b   == out.node.bitboard
            S   == ChildScores(b, out.node.game_state, get_moves(b), out.alpha, out.beta,
                               out.depth, <<>>)
            cut == {i \in 1..Len(S) : S[i] >= out.beta}
        IN  /\ IF cut # {}
               THEN out.ret.v = out.beta /\ out.ret.k = SetMin(cut)
               ELSE /\ out.ret.v = SetMax({out.alpha} \cup {S[i] : i \in 1..Len(S)})
                    /\ out.ret.k = Len(S)
            /\ out.alpha <= out.ret.v /\ out.ret.v <= out.beta

\* a cutoff before the last move by a child whose score exceeds beta
C9_Witness ==
    /\ out.op = "impl" /\ out.depth >= 2 /\ out.alpha < out.beta
    /\ out.ret.v = out.beta
    /\ out.ret.k >= 2
    /\ out.ret.k < Cardinality(get_moves(out.node.bitboard))
    /\ LET b == out.node.bitboard
           S == ChildScores(b, out.node.game_state, get_moves(b), out.alpha, out.beta,
                            out.depth, <<>>)
       IN  S[out.ret.k] > out.beta

\* a node that examined every move and raised alpha
C9_WitnessNoCutoff ==
    /\ out.op = "impl" /\ out.depth >= 2 /\ out.alpha < out.beta
    /\ get_moves(out.node.bitboard) # {}
    /\ out.ret.k = Cardinality(get_moves(out.node.bitboard))
    /\ out.alpha < out.ret.v /\ out.ret.v < out.beta
====
